---- MODULE Spec2Model ----
(***************************************************************************)
(* Model of the indicator LED driver (drivers/indicator_led).              *)
(*                                                                         *)
(* indicator_led_init runs once in thread context and is modelled one      *)
(* platform call per step.  update_led_state is modelled as its three      *)
(* hardware accesses (read STAT1, read STAT2, decide and write LED), which  *)
(* are the points at which another context can run.  The two GPIO edge     *)
(* callbacks run in interrupt context: an interrupt preempts the init      *)
(* thread at any step, and preempts the other callback when its interrupt  *)
(* priority is higher.  The preempted context resumes only when the        *)
(* preempting one has returned.                                            *)
(***************************************************************************)
EXTENDS Integers, Sequences, FiniteSets

\* Bound on the number of input level changes of STAT1 and STAT2 together.
MaxEdges == 2

\* errno value of ENODEV, returned as -ENODEV by the readiness checks.
ENODEV == 19

\* Negative status codes the pin configuration calls may return (-EIO, -EINVAL).
CfgErrs == {-5, -22}

\* Negative status codes a pin read may return (-EIO).
ReadErrs == {-5}

\* Execution contexts that run update_led_state.
Ctx == {"init", "cb1", "cb2"}

Callbacks == {"cb1", "cb2"}

\* The three pins of indicator_led_config.
Pins == {"led", "stat1", "stat2"}

\* Relative interrupt priority of the two inputs' ports.
Prios == {"equal", "stat1_high", "stat2_high"}

NoEval == [ctx |-> "none", stat1 |-> 0, stat2 |-> 0, prior |-> 0, after |-> 0, intr |-> FALSE,
           at |-> "none"]

VARIABLES
    stat1, stat2,   \* electrical level of the two status inputs
    led,            \* level of the LED output
    ledCfg,         \* LED pin configured as output
    inCfg,          \* inCfg[cb]: that callback's input pin is configured as input
    intArmed,       \* intArmed[cb]: both-edge interrupt configured on that pin
    cbReg,          \* cbReg[cb]: the callback is registered with its port
    pend,           \* pend[cb]: an edge interrupt is pending for that callback
    isr,            \* stack of running callbacks, innermost first
    prio,           \* interrupt priority relation of the two inputs
    ready,          \* ready[p]: the controller behind pin p has completed bring-up
    startup,        \* outcome of the startup re-evaluation: none, ok or failed
    pcInit,         \* position of indicator_led_init
    ret,            \* value returned by indicator_led_init (once done)
    platRet,        \* status returned by the last platform call of init
    calls,          \* platform calls made by init, in order
    upc,            \* upc[c]: position of context c inside update_led_state
    st1, st2,       \* st1[c], st2[c]: the locals stat1 and stat2 of context c
    prior,          \* prior[c]: LED level when c entered update_led_state (0 outside)
    intr,           \* intr[c]: c was preempted inside update_led_state
    preAt,          \* preAt["init"]: position of init at its latest preemption there
    nErrLog, nDbgLog, nInfLog,  \* diagnostics emitted, per severity
    nChg,           \* nChg[cb]: level changes of that callback's input
    nEval,          \* nEval[c]: re-evaluations started by context c
    last,           \* the most recently completed re-evaluation
    prev,           \* the one before it: its context, reads and resulting LED level
    seen,           \* reads of the latest completed re-evaluation without a failed read
    chgAt,          \* position of init at the most recent input change (ChangePosition)
    isolated        \* every input change so far hit an idle, initialized driver

vars == <<ready, startup, stat1, stat2, led, ledCfg, inCfg, intArmed, cbReg, pend, isr, prio,
          pcInit, ret, platRet, calls, upc, st1, st2, prior, intr,
          nErrLog, nDbgLog, nInfLog, nChg, nEval, last, prev, chgAt, isolated,
          preAt, seen>>

hw    == <<stat1, stat2, ready>>
irq   == <<pend, isr, prio>>
pins  == <<ledCfg, inCfg, intArmed, cbReg>>
locs  == <<upc, st1, st2, prior, intr, preAt>>
logs  == <<nErrLog, nDbgLog, nInfLog>>
hist  == <<nChg, nEval, last, prev, chgAt, isolated, startup, seen>>

----
\* The context that executes next: the innermost interrupt handler, else the
\* init thread while it has not returned.
Running ==
    IF isr # <<>> THEN Head(isr)
    ELSE IF pcInit # "done" THEN "init" ELSE "none"

\* No handler is running and no edge is waiting to be served.
Quiescent == isr = <<>> /\ \A c \in Callbacks : ~pend[c]

InitOK == pcInit = "done" /\ ret = 0

\* Line 35: either read returned a negative status.
ReadFailed(s1, s2) == s1 < 0 \/ s2 < 0

\* Variant of LedState: the condition written with || instead of &&.
LedState_Or(s1, s2) == IF s1 = 1 \/ s2 = 1 THEN 1 ELSE 0

\* Variant of LedState: the level of STAT2 is not taken into account.
LedState_Stat1Only(s1, s2) == IF s1 = 1 THEN 1 ELSE 0

\* Line 41: the LED level computed from two successful reads.
LedState(s1, s2) == IF s1 = 1 /\ s2 = 1 THEN 1 ELSE 0

Init ==
    /\ stat1 \in {0, 1}
    /\ stat2 \in {0, 1}
    /\ prio \in Prios
    /\ ready \in [Pins -> BOOLEAN]
    /\ startup = "none"
    /\ led = 0
    /\ ledCfg = FALSE
    /\ inCfg = [c \in Callbacks |-> FALSE]
    /\ intArmed = [c \in Callbacks |-> FALSE]
    /\ cbReg = [c \in Callbacks |-> FALSE]
    /\ pend = [c \in Callbacks |-> FALSE]
    /\ isr = <<>>
    /\ pcInit = "led_ready"
    /\ ret = 0
    /\ platRet = 0
    /\ calls = <<>>
    /\ upc = [c \in Ctx |-> "idle"]
    /\ st1 = [c \in Ctx |-> 0]
    /\ st2 = [c \in Ctx |-> 0]
    /\ prior = [c \in Ctx |-> 0]
    /\ intr = [c \in Ctx |-> FALSE]
    /\ preAt = [c \in Ctx |-> "none"]
    /\ seen = <<>>
    /\ nErrLog = 0
    /\ nDbgLog = 0
    /\ nInfLog = 0
    /\ nChg = [c \in Callbacks |-> 0]
    /\ nEval = [c \in Ctx |-> 0]
    /\ last = NoEval
    /\ prev = NoEval
    /\ chgAt = "never"
    /\ isolated = TRUE

----
\* indicator_led_init, one platform call per step.

\* Variant of InitFail: every failure reported as -ENODEV.
InitFail_NoDev(step, code) ==
    /\ ret' = -ENODEV
    /\ pcInit' = "done"
    /\ nErrLog' = nErrLog + 1
    /\ calls' = Append(calls, step)
    /\ UNCHANGED <<nDbgLog, nInfLog>>

\* Variant of InitFail: the failure is returned without LOG_ERR.
InitFail_Silent(step, code) ==
    /\ ret' = code
    /\ pcInit' = "done"
    /\ calls' = Append(calls, step)
    /\ UNCHANGED logs

\* A step of init that fails: LOG_ERR, then return code.
InitFail(step, code) ==
    /\ ret' = code
    /\ pcInit' = "done"
    /\ nErrLog' = nErrLog + 1
    /\ calls' = Append(calls, step)
    /\ UNCHANGED <<nDbgLog, nInfLog>>

\* A step of init that succeeds and goes on to the next one.
InitNext(step, next) ==
    /\ pcInit' = next
    /\ calls' = Append(calls, step)
    /\ UNCHANGED <<ret, logs>>

\* gpio_is_ready_dt on a pin, -ENODEV when the controller is not ready.
InitReady(p, step, next) ==
    /\ pcInit = step
    /\ Running = "init"
    /\ IF ~ready[p] THEN InitFail(step, -ENODEV) ELSE InitNext(step, next)
    /\ UNCHANGED <<hw, led, pins, irq, platRet, locs, hist>>

\* Variant of InitLedReady: the result of gpio_is_ready_dt is not tested.
InitLedReady_Unchecked ==
    /\ pcInit = "led_ready"
    /\ Running = "init"
    /\ InitNext("led_ready", "led_cfg")
    /\ UNCHANGED <<hw, led, pins, irq, platRet, locs, hist>>

InitLedReady == InitReady("led", "led_ready", "led_cfg")

\* Variant of InitLedConfigure: the pin is configured GPIO_OUTPUT_ACTIVE.
InitLedConfigure_Active ==
    /\ pcInit = "led_cfg"
    /\ Running = "init"
    /\ \E r \in {0} \cup CfgErrs :
          /\ platRet' = r
          /\ IF r < 0
             THEN InitFail("led_cfg", r) /\ UNCHANGED <<led, ledCfg>>
             ELSE InitNext("led_cfg", "stat1_ready") /\ led' = 1 /\ ledCfg' = TRUE
    /\ UNCHANGED <<hw, inCfg, intArmed, cbReg, irq, locs, hist>>

InitLedConfigure ==
    /\ pcInit = "led_cfg"
    /\ Running = "init"
    /\ \E r \in {0} \cup CfgErrs :
          /\ platRet' = r
          /\ IF r < 0
             THEN InitFail("led_cfg", r) /\ UNCHANGED <<led, ledCfg>>
             ELSE InitNext("led_cfg", "stat1_ready") /\ led' = 0 /\ ledCfg' = TRUE
    /\ UNCHANGED <<hw, inCfg, intArmed, cbReg, irq, locs, hist>>

InitStat1Ready == InitReady("stat1", "stat1_ready", "stat1_cfg")

\* gpio_pin_configure_dt(pin, GPIO_INPUT) for the input served by callback c.
InitInConfigure(c, step, next) ==
    /\ pcInit = step
    /\ Running = "init"
    /\ \E r \in {0} \cup CfgErrs :
          /\ platRet' = r
          /\ IF r < 0
             THEN InitFail(step, r) /\ UNCHANGED inCfg
             ELSE InitNext(step, next) /\ inCfg' = [inCfg EXCEPT ![c] = TRUE]
    /\ UNCHANGED <<hw, led, ledCfg, intArmed, cbReg, irq, locs, hist>>

\* gpio_pin_interrupt_configure_dt(pin, GPIO_INT_EDGE_BOTH).
InitIntConfigure(c, step, next) ==
    /\ pcInit = step
    /\ Running = "init"
    /\ \E r \in {0} \cup CfgErrs :
          /\ platRet' = r
          /\ IF r < 0
             THEN InitFail(step, r) /\ UNCHANGED intArmed
             ELSE InitNext(step, next) /\ intArmed' = [intArmed EXCEPT ![c] = TRUE]
    /\ UNCHANGED <<hw, led, ledCfg, inCfg, cbReg, irq, locs, hist>>

InitStat1Configure == InitInConfigure("cb1", "stat1_cfg", "stat1_int")

\* Variant of InitStat1Interrupt: init goes on to the callbacks, leaving STAT2 out.
InitStat1Interrupt_SkipStat2 == InitIntConfigure("cb1", "stat1_int", "cb1_add")

\* Variant of InitStat1Interrupt: the STAT1 callback is added as soon as its
\* interrupt is configured, before STAT2 is set up.
InitStat1Interrupt_Registers ==
    /\ pcInit = "stat1_int"
    /\ Running = "init"
    /\ \E r \in {0} \cup CfgErrs :
          /\ platRet' = r
          /\ IF r < 0
             THEN InitFail("stat1_int", r) /\ UNCHANGED <<intArmed, cbReg>>
             ELSE /\ InitNext("stat1_int", "stat2_ready")
                  /\ intArmed' = [intArmed EXCEPT !["cb1"] = TRUE]
                  /\ cbReg' = [cbReg EXCEPT !["cb1"] = TRUE]
    /\ UNCHANGED <<hw, led, ledCfg, inCfg, irq, locs, hist>>

InitStat1Interrupt == InitIntConfigure("cb1", "stat1_int", "stat2_ready")

InitStat2Ready == InitReady("stat2", "stat2_ready", "stat2_cfg")

InitStat2Configure == InitInConfigure("cb2", "stat2_cfg", "stat2_int")

InitStat2Interrupt == InitIntConfigure("cb2", "stat2_int", "cb1_add")

\* gpio_init_callback + gpio_add_callback; the status is not inspected.
InitAddCallback(c, step, next) ==
    /\ pcInit = step
    /\ Running = "init"
    /\ cbReg' = [cbReg EXCEPT ![c] = TRUE]
    /\ InitNext(step, next)
    /\ UNCHANGED <<hw, led, ledCfg, inCfg, intArmed, irq, platRet, locs, hist>>

InitAddCallback1 == InitAddCallback("cb1", "cb1_add", "cb2_add")

\* Variant of InitAddCallback2: the STAT1 callback is added a second time.
InitAddCallback2_Stat1 == InitAddCallback("cb1", "cb2_add", "update")

InitAddCallback2 == InitAddCallback("cb2", "cb2_add", "update")

\* Entry into update_led_state by context c.
UpdEnter(c) ==
    /\ upc' = [upc EXCEPT ![c] = "read1"]
    /\ prior' = [prior EXCEPT ![c] = led]
    /\ nEval' = [nEval EXCEPT ![c] = @ + 1]

\* Variant of InitUpdate: init returns without the startup re-evaluation.
InitUpdate_Skipped ==
    /\ pcInit = "update"
    /\ Running = "init"
    /\ pcInit' = "return"
    /\ UNCHANGED <<hw, led, pins, irq, ret, platRet, calls, locs, logs, hist>>

\* Line 123: init calls update_led_state(config).
InitUpdate ==
    /\ pcInit = "update"
    /\ Running = "init"
    /\ UpdEnter("init")
    /\ intr' = [intr EXCEPT !["init"] = FALSE]
    /\ preAt' = [preAt EXCEPT !["init"] = "none"]
    /\ pcInit' = "in_update"
    /\ calls' = Append(calls, "update")
    /\ UNCHANGED <<hw, led, pins, irq, ret, platRet, st1, st2, logs,
                   nChg, last, prev, chgAt, isolated, startup, seen>>

\* Variant of InitReturn: a failed startup re-evaluation is returned as -EIO.
InitReturn_Propagate ==
    /\ pcInit = "return"
    /\ Running = "init"
    /\ nInfLog' = nInfLog + 1
    /\ ret' = IF startup = "failed" THEN -5 ELSE 0
    /\ pcInit' = "done"
    /\ UNCHANGED <<hw, led, pins, irq, platRet, calls, locs, nErrLog, nDbgLog, hist>>

\* Lines 125-126: LOG_INF and return 0.
InitReturn ==
    /\ pcInit = "return"
    /\ Running = "init"
    /\ nInfLog' = nInfLog + 1
    /\ ret' = 0
    /\ pcInit' = "done"
    /\ UNCHANGED <<hw, led, pins, irq, platRet, calls, locs, nErrLog, nDbgLog, hist>>

----
\* update_led_state, executed by the running context c.

\* Line 32: stat1 = gpio_pin_get_dt(stat1_gpio): the level, or a negative status.
UpdRead1(c) ==
    /\ Running = c
    /\ upc[c] = "read1"
    /\ \E r \in {stat1} \cup ReadErrs : st1' = [st1 EXCEPT ![c] = r]
    /\ upc' = [upc EXCEPT ![c] = "read2"]
    /\ UNCHANGED <<hw, led, pins, irq, pcInit, ret, platRet, calls, st2, prior, intr,
                   preAt, logs, hist>>

\* Line 33: stat2 = gpio_pin_get_dt(stat2_gpio).
UpdRead2(c) ==
    /\ Running = c
    /\ upc[c] = "read2"
    /\ \E r \in {stat2} \cup ReadErrs : st2' = [st2 EXCEPT ![c] = r]
    /\ upc' = [upc EXCEPT ![c] = "write"]
    /\ UNCHANGED <<hw, led, pins, irq, pcInit, ret, platRet, calls, st1, prior, intr,
                   preAt, logs, hist>>

\* Variant of UpdDecide: a failed read switches the LED off.
UpdDecide_ClearOnError(c) ==
    IF ReadFailed(st1[c], st2[c])
    THEN /\ nErrLog' = nErrLog + 1
         /\ led' = 0
         /\ UNCHANGED nDbgLog
    ELSE /\ led' = LedState(st1[c], st2[c])
         /\ nDbgLog' = nDbgLog + 1
         /\ UNCHANGED nErrLog

\* Variant of UpdDecide: once a read has failed, the LED is never written again.
UpdDecide_Latched(c) ==
    IF ReadFailed(st1[c], st2[c]) \/ nErrLog > 0
    THEN /\ nErrLog' = nErrLog + 1
         /\ UNCHANGED <<led, nDbgLog>>
    ELSE /\ led' = LedState(st1[c], st2[c])
         /\ nDbgLog' = nDbgLog + 1
         /\ UNCHANGED nErrLog

\* Variant of UpdDecide: with both inputs asserted the LED is toggled.
UpdDecide_Toggle(c) ==
    IF ReadFailed(st1[c], st2[c])
    THEN /\ nErrLog' = nErrLog + 1
         /\ UNCHANGED <<led, nDbgLog>>
    ELSE /\ led' = IF LedState(st1[c], st2[c]) = 1 THEN 1 - led ELSE 0
         /\ nDbgLog' = nDbgLog + 1
         /\ UNCHANGED nErrLog

\* Lines 35-44: on a failed read LOG_ERR and return; else compute led_state,
\* gpio_pin_set_dt and LOG_DBG.
UpdDecide(c) ==
    IF ReadFailed(st1[c], st2[c])
    THEN /\ nErrLog' = nErrLog + 1
         /\ UNCHANGED <<led, nDbgLog>>
    ELSE /\ led' = LedState(st1[c], st2[c])
         /\ nDbgLog' = nDbgLog + 1
         /\ UNCHANGED nErrLog

\* The last step of update_led_state and the return to its caller: a callback
\* returns from the interrupt, init goes on to line 125.
UpdWrite(c) ==
    /\ Running = c
    /\ upc[c] = "write"
    /\ UpdDecide(c)
    /\ upc' = [upc EXCEPT ![c] = "idle"]
    /\ st1' = [st1 EXCEPT ![c] = 0]
    /\ st2' = [st2 EXCEPT ![c] = 0]
    /\ last' = [ctx |-> c, stat1 |-> st1[c], stat2 |-> st2[c],
                prior |-> prior[c], after |-> led', intr |-> intr[c],
                at |-> preAt[c]]
    /\ prev' = [last EXCEPT !.prior = 0, !.intr = FALSE, !.at = "none"]
    /\ seen' = IF ReadFailed(st1[c], st2[c]) THEN seen ELSE <<st1[c], st2[c]>>
    /\ startup' = IF c # "init" THEN startup
                  ELSE IF ReadFailed(st1[c], st2[c]) THEN "failed" ELSE "ok"
    /\ IF c = "init"
       THEN pcInit' = "return" /\ UNCHANGED isr
       ELSE isr' = Tail(isr) /\ UNCHANGED pcInit
    /\ prior' = [prior EXCEPT ![c] = 0]
    /\ intr' = [intr EXCEPT ![c] = FALSE]
    /\ preAt' = [preAt EXCEPT ![c] = "none"]
    /\ UNCHANGED <<hw, pins, pend, prio, ret, platRet, calls, nInfLog,
                   nChg, nEval, chgAt, isolated>>

----
\* The environment: input edges and interrupt dispatch.

\* Where init stands when an input changes; the positions from the start of
\* the startup re-evaluation on count as one, named "done".
ChangePosition == IF pcInit \in {"in_update", "return"} THEN "done" ELSE pcInit

\* The input served by callback c changes level.  With the interrupt armed and
\* the callback registered the edge becomes a pending callback invocation;
\* otherwise nothing in the driver observes it.
StatChange(c) ==
    /\ nChg["cb1"] + nChg["cb2"] < MaxEdges
    /\ IF c = "cb1"
       THEN stat1' = 1 - stat1 /\ UNCHANGED stat2
       ELSE stat2' = 1 - stat2 /\ UNCHANGED stat1
    /\ pend' = IF intArmed[c] /\ cbReg[c] THEN [pend EXCEPT ![c] = TRUE] ELSE pend
    /\ nChg' = [nChg EXCEPT ![c] = @ + 1]
    /\ chgAt' = ChangePosition
    /\ isolated' = (isolated /\ InitOK /\ Quiescent)
    /\ UNCHANGED <<ready, startup, led, pins, isr, prio, pcInit, ret, platRet, calls, locs, logs,
                   nEval, last, prev, seen>>

\* Callback c may interrupt the handler that is running now.
CanPreempt(c) ==
    IF isr = <<>> THEN TRUE
    ELSE IF c = "cb1" THEN Head(isr) = "cb2" /\ prio = "stat1_high"
    ELSE Head(isr) = "cb1" /\ prio = "stat2_high"

\* Lines 47-57: the port's interrupt invokes stat1_gpio_callback or
\* stat2_gpio_callback, which calls update_led_state(data->config).
GpioCallback(c) ==
    /\ pend[c]
    /\ \A i \in 1..Len(isr) : isr[i] # c
    /\ CanPreempt(c)
    /\ pend' = [pend EXCEPT ![c] = FALSE]
    /\ isr' = <<c>> \o isr
    /\ UpdEnter(c)
    /\ intr' = [d \in Ctx |-> IF d = c THEN FALSE
                              ELSE IF upc[d] # "idle" THEN TRUE ELSE intr[d]]
    /\ preAt' = [d \in Ctx |-> IF d = c THEN "none"
                               ELSE IF d = "init" /\ upc[d] # "idle" THEN upc[d]
                               ELSE preAt[d]]
    /\ UNCHANGED <<hw, led, pins, prio, pcInit, ret, platRet, calls, st1, st2, logs,
                   nChg, last, prev, chgAt, isolated, startup, seen>>

stat1_gpio_callback == GpioCallback("cb1")

stat2_gpio_callback == GpioCallback("cb2")

update_led_state ==
    \E c \in Ctx : UpdRead1(c) \/ UpdRead2(c) \/ UpdWrite(c)

indicator_led_init ==
    \/ InitLedReady
    \/ InitLedConfigure
    \/ InitStat1Ready
    \/ InitStat1Configure
    \/ InitStat1Interrupt
    \/ InitStat2Ready
    \/ InitStat2Configure
    \/ InitStat2Interrupt
    \/ InitAddCallback1
    \/ InitAddCallback2
    \/ InitUpdate
    \/ InitReturn

Next ==
    \/ indicator_led_init
    \/ update_led_state
    \/ stat1_gpio_callback
    \/ stat2_gpio_callback
    \/ StatChange("cb1")
    \/ StatChange("cb2")

Spec == Init /\ [][Next]_vars

----
\* Helpers of the properties.

\* The platform calls of a complete initialization, in the order of the code.
AllSteps == <<"led_ready", "led_cfg", "stat1_ready", "stat1_cfg", "stat1_int",
              "stat2_ready", "stat2_cfg", "stat2_int", "cb1_add", "cb2_add", "update">>

ReadySteps == {"led_ready", "stat1_ready", "stat2_ready"}

InputCfgSteps == {"stat1_cfg", "stat1_int", "stat2_cfg", "stat2_int"}

CfgSteps == InputCfgSteps \cup {"led_cfg"}

PinOf(step) ==
    IF step = "led_ready" THEN "led"
    ELSE IF step = "stat1_ready" THEN "stat1" ELSE "stat2"

LastCall == calls[Len(calls)]

Evaluated(e) == e.ctx # "none"

ReadsOK(e) == Evaluated(e) /\ ~ReadFailed(e.stat1, e.stat2)

NoCallbackRan == nEval["cb1"] = 0 /\ nEval["cb2"] = 0

----
\* C1: a re-evaluation that ran without interruption leaves the LED at 1 when
\* both reads returned 1, at 0 when both reads succeeded and one returned 0,
\* and at the level it had before when a read returned an error.
C1_UpdateLedState ==
    (Evaluated(last) /\ ~last.intr) =>
        led = IF last.stat1 < 0 \/ last.stat2 < 0 THEN last.prior
              ELSE IF last.stat1 = 1 /\ last.stat2 = 1 THEN 1 ELSE 0

\* An uninterrupted re-evaluation with a failed read found the LED on and left it on.
C1_Witness ==
    /\ Evaluated(last) /\ ~last.intr
    /\ last.stat1 < 0 /\ last.stat2 = 1
    /\ last.prior = 1 /\ led = 1

\* C2 (as stated): the LED is never on while STAT1 or STAT2 is at level 0.
C2_LedOnlyWhenBothAsserted ==
    led = 1 => (stat1 = 1 /\ stat2 = 1)

\* C2 (amended): the LED is switched on only by a re-evaluation whose reads of
\* STAT1 and STAT2 both returned 1.
C2_LedSetOnlyAfterBothRead1 ==
    [][(led = 0 /\ led' = 1) =>
          \E c \in Ctx : /\ Running = c /\ upc[c] = "write" /\ upc'[c] = "idle"
                         /\ st1[c] = 1 /\ st2[c] = 1]_vars

\* The LED is on, switched on by a re-evaluation that read 1 and 1, and STAT2
\* has dropped to 0 since.
C2_Witness ==
    /\ led = 1 /\ ReadsOK(last) /\ last.stat1 = 1 /\ last.stat2 = 1
    /\ stat2 = 0

\* C3: after the two callbacks interleaved (one preempted the other inside its
\* re-evaluation), both have returned, no edge is outstanding and no read
\* failed, the LED equals STAT1 AND STAT2 of the current input levels.
C3_InterleavedCallbacksSettle ==
    (/\ InitOK /\ Quiescent
     /\ last.ctx \in Callbacks /\ last.intr
     /\ prev.ctx \in Callbacks \ {last.ctx}
     /\ ReadsOK(last) /\ ReadsOK(prev)
     /\ startup = "ok")
        => led = LedState(stat1, stat2)

\* C4: when both inputs are asserted from the start of the startup
\* re-evaluation on, no read has failed and no callback has run, the LED is on
\* once indicator_led_init has returned 0.
C4_StartupSynchronization ==
    (/\ InitOK
     /\ stat1 = 1 /\ stat2 = 1
     /\ chgAt \notin {"in_update", "return", "done"}
     /\ nErrLog = 0
     /\ NoCallbackRan)
        => led = 1

C4_Witness ==
    /\ InitOK /\ stat1 = 1 /\ stat2 = 1
    /\ chgAt \notin {"in_update", "return", "done"}
    /\ startup = "ok" /\ NoCallbackRan /\ led = 1
    /\ last.ctx = "init"

\* C5: with the LED pin's controller not ready, indicator_led_init returns
\* -ENODEV after the readiness check alone: no pin is configured, no interrupt
\* armed, no callback registered and no re-evaluation run.
C5_LedNotReady ==
    (pcInit = "done" /\ ~ready["led"]) =>
        /\ ret = -ENODEV
        /\ calls = <<"led_ready">>
        /\ ~ledCfg
        /\ \A c \in Callbacks : ~inCfg[c] /\ ~intArmed[c] /\ ~cbReg[c]
        /\ \A c \in Ctx : nEval[c] = 0
        /\ startup = "none"

C5_Witness ==
    /\ pcInit = "done" /\ ~ready["led"] /\ ret = -ENODEV
    /\ ready["stat1"] /\ ready["stat2"]
    /\ nChg["cb1"] > 0

\* C6: when the input configuration or the interrupt configuration of STAT1 or
\* STAT2 returns a negative status, indicator_led_init returns that status.
C6_ConfigStatusReturned ==
    (/\ pcInit = "done" /\ calls # <<>>
     /\ LastCall \in InputCfgSteps
     /\ platRet < 0)
        => ret = platRet

C6_Witness ==
    /\ pcInit = "done" /\ calls # <<>>
    /\ LastCall = "stat2_int" /\ platRet = -22 /\ ret = -22

\* C7 (as stated): indicator_led_init returns 0 only if every step succeeded,
\* the startup re-evaluation included.
C7_ZeroOnlyIfEveryStepSucceeded ==
    InitOK =>
        /\ calls = AllSteps
        /\ \A p \in Pins : ready[p]
        /\ ledCfg
        /\ \A c \in Callbacks : inCfg[c] /\ intArmed[c] /\ cbReg[c]
        /\ startup = "ok"

\* C7 (amended): indicator_led_init returns 0 only if the three readiness
\* checks, the LED and input configurations and both interrupt configurations
\* succeeded, and then both callbacks are registered and the startup
\* re-evaluation has run, whether or not its reads succeeded; otherwise it
\* returns the code of the step that failed, which is the last step it made,
\* and has emitted one error diagnostic.
C7_ReturnCode ==
    pcInit = "done" =>
        IF ret = 0
        THEN /\ calls = AllSteps
             /\ \A p \in Pins : ready[p]
             /\ ledCfg
             /\ \A c \in Callbacks : inCfg[c] /\ intArmed[c] /\ cbReg[c]
             /\ startup \in {"ok", "failed"}
             /\ nInfLog = 1
        ELSE /\ calls # <<>>
             /\ calls = SubSeq(AllSteps, 1, Len(calls))
             /\ LastCall \in ReadySteps \cup CfgSteps
             /\ LastCall \in ReadySteps => (~ready[PinOf(LastCall)] /\ ret = -ENODEV)
             /\ LastCall \in CfgSteps => (platRet < 0 /\ ret = platRet)
             /\ \A i \in 1..(Len(calls) - 1) :
                    calls[i] \in ReadySteps => ready[PinOf(calls[i])]
             /\ nErrLog = 1 /\ nInfLog = 0 /\ nDbgLog = 0
             /\ startup = "none"

\* Init returned 0 although the reads of the startup re-evaluation failed.
C7_Witness ==
    InitOK /\ startup = "failed" /\ nErrLog = 1 /\ NoCallbackRan

\* C8: after a successful initialization, when every input change arrives
\* while the driver is idle, each change of STAT1 has run the STAT1 callback
\* once and each change of STAT2 the STAT2 callback once, and after a
\* re-evaluation whose reads succeeded the LED equals STAT1 AND STAT2.
C8_EdgeTriggersOneReevaluation ==
    (InitOK /\ isolated /\ Quiescent) =>
        /\ nEval["cb1"] = nChg["cb1"]
        /\ nEval["cb2"] = nChg["cb2"]
        /\ nEval["init"] = 1
        /\ (last.ctx \in Callbacks /\ ReadsOK(last)) => led = LedState(stat1, stat2)

\* One edge on each input, each served on its own, the LED on at the end.
C8_Witness ==
    /\ InitOK /\ isolated /\ Quiescent
    /\ nChg["cb1"] = 1 /\ nChg["cb2"] = 1
    /\ nEval["cb1"] = 1 /\ nEval["cb2"] = 1
    /\ ReadsOK(last) /\ led = 1

\* C9: a failed read leaves the LED at its level and the callbacks registered,
\* and a later re-evaluation whose reads succeed sets the LED to the AND of
\* the levels it read, which are the current levels when the edges arrived
\* while the driver was idle, however many failed re-evaluations came before.
C9_ReadErrorRecoverable ==
    /\ (Evaluated(last) /\ ReadFailed(last.stat1, last.stat2) /\ ~last.intr)
          => led = last.prior
    /\ (InitOK /\ nErrLog > 0)
          => \A c \in Callbacks : cbReg[c] /\ intArmed[c]
    /\ (InitOK /\ nErrLog > 0 /\ ReadsOK(last))
          => led = LedState(last.stat1, last.stat2)
    /\ (InitOK /\ nErrLog > 0 /\ ReadsOK(last) /\ isolated /\ Quiescent
        /\ last.ctx \in Callbacks)
          => led = LedState(stat1, stat2)

\* Two failed re-evaluations, then an edge whose reads succeed lights the LED.
C9_Witness ==
    /\ InitOK /\ nErrLog = 2 /\ isolated /\ Quiescent
    /\ last.ctx \in Callbacks /\ ReadsOK(last)
    /\ ReadFailed(prev.stat1, prev.stat2)
    /\ led = 1 /\ stat1 = 1 /\ stat2 = 1

\* C10: a re-evaluation that follows another one with the same two read
\* results, nothing having written the LED in between, leaves the LED at the
\* level the first one left.
C10_Idempotent ==
    (/\ Evaluated(last) /\ Evaluated(prev)
     /\ ~last.intr
     /\ last.stat1 = prev.stat1 /\ last.stat2 = prev.stat2
     /\ last.prior = prev.after)
        => led = prev.after

C10_Witness ==
    /\ Evaluated(last) /\ Evaluated(prev) /\ ~last.intr
    /\ last.stat1 = 1 /\ prev.stat1 = 1
    /\ last.stat2 = 1 /\ prev.stat2 = 1
    /\ last.prior = prev.after /\ led = 1
    /\ nDbgLog = 2

----
\* Helpers of the properties of the second group.

\* 1 when both levels are 1, else 0.
Both(a, b) == IF a = 1 /\ b = 1 THEN 1 ELSE 0

\* Positions of init after the LED is configured and before line 123.
BeforeUpdate == {"stat1_ready", "stat1_cfg", "stat1_int", "stat2_ready", "stat2_cfg",
                 "stat2_int", "cb1_add", "cb2_add", "update"}

\* Positions of init once both callbacks are registered.
AfterRegistration == {"update", "in_update", "return", "done"}

\* Init has made step s and the step succeeded: a step that failed is the
\* last one made, with init returned.
StepDone(s) ==
    \E i \in 1..Len(calls) :
        calls[i] = s /\ (i < Len(calls) \/ pcInit # "done" \/ ret = 0)

InitFailed == pcInit = "done" /\ ret < 0

----
C13_LedOffUntilStartup ==
    (ledCfg /\ pcInit \in BeforeUpdate) => led = 0

\* C13 (amended): from the configuration of the LED pin until the first
\* callback is registered the LED is off and not written; from then until the
\* startup re-evaluation begins only a registered callback serving an edge
\* writes it, and it is off as long as none has.
C13_LedOffUntilCallbackWrites ==
    (ledCfg /\ pcInit \in BeforeUpdate) =>
        /\ nEval["init"] = 0
        /\ pcInit \notin {"cb2_add", "update"} => (NoCallbackRan /\ nDbgLog = 0)
        /\ pcInit = "cb2_add" => nEval["cb2"] = 0
        /\ nDbgLog = 0 => led = 0
        /\ nDbgLog > 0 => (last.ctx \in Callbacks /\ cbReg[last.ctx])

\* The STAT1 callback has switched the LED on before init reached line 123.
C13_Witness ==
    /\ ledCfg /\ pcInit = "update" /\ nEval["init"] = 0
    /\ last.ctx = "cb1" /\ led = 1

\* C14: init makes its platform calls in the order of AllSteps, each step's
\* effect is there exactly when the step was made and succeeded, a successful
\* init has made all of them with one startup re-evaluation, and a failed
\* init has stopped at the step that failed.
C14_CallOrder ==
    /\ Len(calls) <= Len(AllSteps)
    /\ calls = SubSeq(AllSteps, 1, Len(calls))
    /\ ledCfg = StepDone("led_cfg")
    /\ inCfg["cb1"] = StepDone("stat1_cfg")
    /\ intArmed["cb1"] = StepDone("stat1_int")
    /\ inCfg["cb2"] = StepDone("stat2_cfg")
    /\ intArmed["cb2"] = StepDone("stat2_int")
    /\ cbReg["cb1"] = StepDone("cb1_add")
    /\ cbReg["cb2"] = StepDone("cb2_add")
    /\ nEval["init"] = IF StepDone("update") THEN 1 ELSE 0
    /\ InitOK => (calls = AllSteps /\ nInfLog = 1)
    /\ InitFailed =>
          /\ calls # <<>>
          /\ LastCall \in ReadySteps \cup CfgSteps
          /\ LastCall \in ReadySteps => ~ready[PinOf(LastCall)]
          /\ LastCall \in CfgSteps => platRet < 0

\* A complete initialization, all inputs having changed after it.
C14_Witness ==
    /\ InitOK /\ calls = AllSteps /\ nEval["init"] = 1
    /\ nChg["cb1"] + nChg["cb2"] = MaxEdges

\* C15: when a callback ran between the two reads and the LED write of the
\* startup re-evaluation, then once init has returned, the callback has
\* returned, no edge is outstanding and no read failed, the LED equals
\* STAT1 AND STAT2 of the current input levels.
C15_StartupRaceSettles ==
    (/\ InitOK /\ Quiescent
     /\ last.ctx = "init" /\ last.at = "write"
     /\ prev.ctx \in Callbacks
     /\ ReadsOK(last) /\ ReadsOK(prev)
     /\ nErrLog = 0)
        => led = Both(stat1, stat2)

\* C16: when init returns 0, no input has changed since both callbacks were
\* registered and the startup reads succeeded, the LED equals STAT1 AND STAT2
\* of the current input levels, whatever changed earlier during init.
C16_EarlyTransitionsNotLost ==
    (/\ InitOK
     /\ chgAt \notin AfterRegistration
     /\ startup # "failed")
        => led = Both(stat1, stat2)

\* STAT1 rose after both interrupts were armed and before a callback was
\* added: no callback ran, and the LED is on when init has returned.
C16_Witness ==
    /\ InitOK /\ chgAt = "cb1_add" /\ nChg["cb1"] = 1 /\ nChg["cb2"] = 0
    /\ NoCallbackRan /\ startup = "ok"
    /\ stat1 = 1 /\ stat2 = 1 /\ led = 1

\* C17: after a failed initialization no callback is registered, no edge is
\* pending, no re-evaluation has run, and the LED is off and unwritten.
C17_FailedInitInert ==
    InitFailed =>
        /\ \A c \in Callbacks : ~cbReg[c] /\ ~pend[c]
        /\ isr = <<>>
        /\ \A c \in Ctx : nEval[c] = 0 /\ upc[c] = "idle"
        /\ ~Evaluated(last) /\ seen = <<>>
        /\ nDbgLog = 0
        /\ led = 0

\* STAT2's interrupt configuration failed with STAT1's interrupt armed; both
\* inputs have changed since and are asserted, and the LED is off.
C17_Witness ==
    /\ InitFailed /\ LastCall = "stat2_int" /\ intArmed["cb1"]
    /\ chgAt = "done" /\ nChg["cb1"] = 1 /\ nChg["cb2"] = 1
    /\ stat1 = 1 /\ stat2 = 1 /\ led = 0

----
TypeOK ==
    /\ stat1 \in {0, 1} /\ stat2 \in {0, 1} /\ led \in {0, 1}
    /\ Len(isr) <= 2
    /\ \A c \in Ctx : upc[c] \in {"idle", "read1", "read2", "write"}
    /\ Evaluated(last) => led = last.after

====
